---- MODULE Spec2Model ----
(***************************************************************************)
(* Model of the bucketed endpoint-error metric (EndpointDistanceMetricRaw- *)
(* Torch) and of the validation protocol of ModelWrapper                   *)
(* (src/model_wrapper.py).                                                 *)
(*                                                                         *)
(* Numbers.  Tensors hold integers: coordinates, flows, endpoint errors    *)
(* and speeds are whole units chosen so that every norm taken is a whole   *)
(* number (axis-aligned vectors).  The float32 tensors (error sum, forward  *)
(* time) hold whole numbers too, and every addition into them rounds to    *)
(* the nearest float32 as the hardware does: exact below 2^24, to the      *)
(* nearest multiple of the unit in the last place above.  The integer      *)
(* tensors (error count, forward count) add exactly.                       *)
(* A 2-D array of shape (n, d) is a sequence of n tuples of length d; an   *)
(* empty array is taken to have 3 columns.  A 4-D accumulator tensor is a  *)
(* function from index tuples <<close, class, speed, epe>> (0-based, as in *)
(* the source) to its cell value.                                          *)
(***************************************************************************)
EXTENDS Integers, Sequences, FiniteSets, TLC

\* ------------------------------------------------------------------ bounds

\* Number of cooperating processes (ranks 0 .. NumProcs-1).
NumProcs == 2
\* Validation epochs each process runs.
MaxEpochs == 2
\* Validation steps a process runs in one epoch (at least one).
MaxSteps == 2
\* Points in one array handed to update_class_error in the unit-level runs.
MaxPoints == 2
\* Calls made on the accumulator in the unit-level runs.
MaxOps == 2

\* -------------------------------------------------------- program constants

\* close_object_threshold_meters: float = 35.0
close_object_threshold_meters == 35
\* per_frame_to_per_second_scale_factor: float = 10.0
per_frame_to_per_second_scale_factor == 10

\* ----------------------------------------------------------- numeric helpers

Abs(x) == IF x < 0 THEN -x ELSE x

Max2(a, b) == IF a >= b THEN a ELSE b

RECURSIVE SumSq(_)
SumSq(v) == IF v = <<>> THEN 0 ELSE v[1] * v[1] + SumSq(Tail(v))

\* Integer square root (exact on the perfect squares the inputs produce).
ISqrt(n) == CHOOSE r \in 0..n : r * r <= n /\ n < (r + 1) * (r + 1)

\* torch.norm(x, dim=1, p=2) on one row.
Norm2(v) == ISqrt(SumSq(v))

\* torch.norm(x, dim=1, p=np.inf) on one row.
RECURSIVE NormInf(_)
NormInf(v) == IF v = <<>> THEN 0 ELSE Max2(Abs(v[1]), NormInf(Tail(v)))

\* dtype=torch.float: a float32 has a significand of 24 bits.
Float32SignificandBits == 24

RECURSIVE Pow2(_)
Pow2(n) == IF n = 0 THEN 1 ELSE 2 * Pow2(n - 1)

\* 2^24: from here on a float32 no longer holds every whole number.
Float32ExactLimit == Pow2(Float32SignificandBits)

\* The unit in the last place of the float32 binade of n >= 0: the least
\* power of two u with n < 2^24 * u.
RECURSIVE Float32Ulp(_, _)
Float32Ulp(n, u) ==
    IF n < Float32ExactLimit * u THEN u ELSE Float32Ulp(n, 2 * u)

\* The float32 nearest to the whole number n, ties to the even significand.
RoundFloat32(n) ==
    LET m == Abs(n)
        u == Float32Ulp(m, 1)
        q == m \div u
        r == m % u
        up == (2 * r > u) \/ (2 * r = u /\ q % 2 = 1)
        rounded == (IF up THEN q + 1 ELSE q) * u
    IN  IF n < 0 THEN -rounded ELSE rounded

\* a + b on float32 tensors.
FloatAdd(a, b) == RoundFloat32(a + b)

\* torch.sum of a sequence of float32 values, accumulated from the first.
RECURSIVE FloatSumFrom(_, _)
FloatSumFrom(total, q) ==
    IF q = <<>> THEN total ELSE FloatSumFrom(FloatAdd(total, Head(q)), Tail(q))

FloatSum(q) == FloatSumFrom(0, q)

\* a - b on rows of equal length.
VecSub(a, b) == [i \in 1..Len(a) |-> a[i] - b[i]]

\* tensor.shape of a 2-D array.
Shape(a) == <<Len(a), IF Len(a) = 0 THEN 3 ELSE Len(a[1])>>

\* a - b on arrays of equal shape.
ArrSub(a, b) == [i \in 1..Len(a) |-> VecSub(a[i], b[i])]

\* torch.sum(mask): the number of true entries.
RECURSIVE MaskCount(_)
MaskCount(mask) ==
    IF mask = <<>> THEN 0
    ELSE (IF Head(mask) THEN 1 ELSE 0) + MaskCount(Tail(mask))

\* a[mask] / frame[idxes]: the rows selected by a boolean mask, by indices.
RECURSIVE MaskSelect(_, _)
MaskSelect(a, mask) ==
    IF a = <<>> THEN <<>>
    ELSE (IF Head(mask) THEN <<Head(a)>> ELSE <<>>)
         \o MaskSelect(Tail(a), Tail(mask))

\* The row an index selects.  Rows are counted from 1 here, so the index k
\* stands for the source's k - 1, and k < 1 for a negative index of the
\* source, which counts from the end.
IndexRow(frame, k) == IF k >= 1 THEN k ELSE Len(frame) + k

\* No index of idxes is out of bounds for the frame.
IndexesInRange(frame, idxes) ==
    \A i \in 1..Len(idxes) : IndexRow(frame, idxes[i]) \in 1..Len(frame)

\* frame[idxes] for in-range indices.
IndexSelect(frame, idxes) ==
    [i \in 1..Len(idxes) |-> frame[IndexRow(frame, idxes[i])]]

\* torch.sum(values[mask]) for a sequence of float32 values and a boolean mask.
MaskedSum(values, mask) == FloatSum(MaskSelect(values, mask))

\* ------------------------------------------- EndpointDistanceMetricRawTorch

\* zip(splits, splits[1:]): consecutive boundaries, one pair per bucket.
ZipBounds(splits) ==
    [i \in 1..(IF Len(splits) = 0 THEN 0 ELSE Len(splits) - 1) |->
        <<splits[i], splits[i + 1]>>]

speed_bucket_bounds(self) == ZipBounds(self.speed_bucket_splits_meters_per_second)

epe_bucket_bounds(self) == ZipBounds(self.endpoint_error_splits_meters)

\* The index set of a tensor of shape (2, nclass, nspeed, nepe).
Cells(nclass, nspeed, nepe) ==
    (0..1) \X (0..(nclass - 1)) \X (0..(nspeed - 1)) \X (0..(nepe - 1))

CellsOf(self) == DOMAIN self.per_class_bucketed_error_sum

\* torch.zeros(shape)
Zeros(cells) == [c \in cells |-> 0]

\* __init__: class_ids is the key order of class_id_to_name_map.
MetricInit(class_ids, speed_splits, epe_splits) ==
    LET cfg == [speed_bucket_splits_meters_per_second |-> speed_splits,
                endpoint_error_splits_meters |-> epe_splits]
        cells == Cells(Len(class_ids), Len(speed_bucket_bounds(cfg)),
                       Len(epe_bucket_bounds(cfg)))
    IN  [class_id_to_index_map |->
            [id \in {class_ids[i] : i \in 1..Len(class_ids)} |->
                (CHOOSE i \in 1..Len(class_ids) : class_ids[i] = id) - 1],
         speed_bucket_splits_meters_per_second |-> speed_splits,
         endpoint_error_splits_meters |-> epe_splits,
         per_class_bucketed_error_sum |-> Zeros(cells),
         per_class_bucketed_error_count |-> Zeros(cells),
         total_forward_time |-> 0,
         total_forward_count |-> 0]

\* A proximity test that takes a point on the threshold for far.
IsCloseMaskStrict(pc) ==
    [i \in 1..Len(pc) |->
        NormInf(SubSeq(pc[i], 1, 2)) < close_object_threshold_meters]

\* point_xy_distances <= self.close_object_threshold_meters, per point.
IsCloseMask(pc) ==
    [i \in 1..Len(pc) |->
        NormInf(SubSeq(pc[i], 1, 2)) <= close_object_threshold_meters]

\* A bucket test that takes the upper bound into the bucket.
BucketMaskClosed(values, lower, upper) ==
    [i \in 1..Len(values) |-> values[i] >= lower /\ values[i] <= upper]

\* A bucket test that forgets the lower bound.
BucketMaskNoLower(values, lower, upper) ==
    [i \in 1..Len(values) |-> values[i] < upper]

\* (values >= lower) & (values < upper), per point.
BucketMask(values, lower, upper) ==
    [i \in 1..Len(values) |-> values[i] >= lower /\ values[i] < upper]

MaskAnd(a, b) == [i \in 1..Len(a) |-> a[i] /\ b[i]]

MaskNot(a) == [i \in 1..Len(a) |-> ~a[i]]

\* An assignment where the source accumulates.
AssignAt(tensor, c, v) == v

\* tensor[c] += v on an integer tensor: the new value of the cell.
AddAt(tensor, c, v) == tensor[c] + v

\* An assignment to the float32 cell where the source accumulates.
FloatAssignAt(tensor, c, v) == v

\* tensor[c] += v on a float32 tensor: the new value of the cell.
FloatAddAt(tensor, c, v) == FloatAdd(tensor[c], v)

\* The three nested loops of update_class_error: every cell of the class
\* gets the masked sum and the masked count added.
UpdateLoops(self, pc, class_index, endpoint_errors, gt_speeds) ==
    LET close == IsCloseMask(pc)
        close_masks == <<close, MaskNot(close)>>
        sb == speed_bucket_bounds(self)
        eb == epe_bucket_bounds(self)
        total_mask(c) ==
            MaskAnd(MaskAnd(close_masks[c[1] + 1],
                            BucketMask(gt_speeds, sb[c[3] + 1][1], sb[c[3] + 1][2])),
                    BucketMask(endpoint_errors, eb[c[4] + 1][1], eb[c[4] + 1][2]))
    IN  [self EXCEPT
            !.per_class_bucketed_error_sum =
                [c \in CellsOf(self) |->
                    IF c[2] = class_index
                    THEN FloatAddAt(self.per_class_bucketed_error_sum, c,
                                    MaskedSum(endpoint_errors, total_mask(c)))
                    ELSE self.per_class_bucketed_error_sum[c]],
            !.per_class_bucketed_error_count =
                [c \in CellsOf(self) |->
                    IF c[2] = class_index
                    THEN AddAt(self.per_class_bucketed_error_count, c,
                               MaskCount(total_mask(c)))
                    ELSE self.per_class_bucketed_error_count[c]]]

\* The assertions without the test of the points' coordinate count.
ShapesOkNoDimCheck(pc, regressed_flow, gt_flow) ==
    /\ Shape(regressed_flow) = Shape(gt_flow)
    /\ Shape(regressed_flow)[1] = Shape(pc)[1]

\* The three assertions that open update_class_error.
ShapesOk(pc, regressed_flow, gt_flow) ==
    /\ Shape(regressed_flow) = Shape(gt_flow)
    /\ Shape(regressed_flow)[1] = Shape(pc)[1]
    /\ Shape(pc)[2] = 3

\* A lookup that falls back to index 0 for an absent id.
ClassIndexLookupDefault(self, class_id) ==
    IF class_id \in DOMAIN self.class_id_to_index_map
    THEN [found |-> TRUE, index |-> self.class_id_to_index_map[class_id]]
    ELSE [found |-> TRUE, index |-> 0]

\* self.class_id_to_index_map[class_id]: the index, or a KeyError.
ClassIndexLookup(self, class_id) ==
    IF class_id \in DOMAIN self.class_id_to_index_map
    THEN [found |-> TRUE, index |-> self.class_id_to_index_map[class_id]]
    ELSE [found |-> FALSE, index |-> 0]

\* update_class_error: the result is the accumulator after the call and the
\* error the call raised ("none" when it returned).  A failed assertion is
\* reported as ShapeMismatch, the KeyError of the lookup as UnknownCategory.
update_class_error(self, pc, class_id, regressed_flow, gt_flow) ==
    IF ~ShapesOk(pc, regressed_flow, gt_flow)
    THEN [err |-> "ShapeMismatch", metric |-> self]
    ELSE IF ~ClassIndexLookup(self, class_id).found
    THEN [err |-> "UnknownCategory", metric |-> self]
    ELSE LET class_index == ClassIndexLookup(self, class_id).index
             endpoint_errors ==
                 [i \in 1..Len(pc) |-> Norm2(VecSub(regressed_flow[i], gt_flow[i]))]
             gt_speeds ==
                 [i \in 1..Len(pc) |->
                     Norm2(gt_flow[i]) * per_frame_to_per_second_scale_factor]
         IN  [err |-> "none",
              metric |-> UpdateLoops(self, pc, class_index, endpoint_errors, gt_speeds)]

\* An update_runtime that counts the call, not the samples.
update_runtimeCountCalls(self, run_time, run_count) ==
    [self EXCEPT !.total_forward_time = FloatAdd(@, run_time),
                 !.total_forward_count = @ + 1]

\* An update_runtime that assigns where the source adds.
update_runtimeAssign(self, run_time, run_count) ==
    [self EXCEPT !.total_forward_time = run_time,
                 !.total_forward_count = run_count]

\* update_runtime
update_runtime(self, run_time, run_count) ==
    [self EXCEPT !.total_forward_time = FloatAdd(@, run_time),
                 !.total_forward_count = @ + run_count]

\* A reset that forgets the forward time.
resetKeepTime(self) ==
    [self EXCEPT !.per_class_bucketed_error_sum = Zeros(CellsOf(self)),
                 !.per_class_bucketed_error_count = Zeros(CellsOf(self)),
                 !.total_forward_count = 0]

\* A reset that leaves the error counts.
resetKeepCount(self) ==
    [self EXCEPT !.per_class_bucketed_error_sum = Zeros(CellsOf(self)),
                 !.total_forward_time = 0,
                 !.total_forward_count = 0]

\* A reset that leaves the forward count.
resetKeepForwardCount(self) ==
    [self EXCEPT !.per_class_bucketed_error_sum = Zeros(CellsOf(self)),
                 !.per_class_bucketed_error_count = Zeros(CellsOf(self)),
                 !.total_forward_time = 0]

\* A reset that leaves the error sums.
resetKeepSum(self) ==
    [self EXCEPT !.per_class_bucketed_error_count = Zeros(CellsOf(self)),
                 !.total_forward_time = 0,
                 !.total_forward_count = 0]

\* reset
reset(self) ==
    [self EXCEPT !.per_class_bucketed_error_sum = Zeros(CellsOf(self)),
                 !.per_class_bucketed_error_count = Zeros(CellsOf(self)),
                 !.total_forward_time = 0,
                 !.total_forward_count = 0]

\* ------------------------------------------------------------- ModelWrapper

Min2(a, b) == IF a <= b THEN a ELSE b

\* torch.unique(x): the distinct values, ascending.
RECURSIVE SortedSeq(_)
SortedSeq(S) ==
    IF S = {} THEN <<>>
    ELSE LET lo == CHOOSE x \in S : \A y \in S : x <= y
         IN  <<lo>> \o SortedSeq(S \ {lo})

Unique(values) == SortedSeq({values[i] : i \in 1..Len(values)})

\* The loop over torch.unique(pc0_pc_class_info): one update_class_error
\* call per class id, in ascending order, up to the first call that raises.
RECURSIVE ClassLoop(_, _, _, _, _, _)
ClassLoop(metric, cls_ids, pc0_pc, pc0_pc_class_info, regressed_flow, ground_truth_flow) ==
    IF cls_ids = <<>> THEN [err |-> "none", metric |-> metric]
    ELSE LET cls_mask == [i \in 1..Len(pc0_pc_class_info) |->
                             pc0_pc_class_info[i] = Head(cls_ids)]
             r == update_class_error(metric, MaskSelect(pc0_pc, cls_mask),
                                     Head(cls_ids),
                                     MaskSelect(regressed_flow, cls_mask),
                                     MaskSelect(ground_truth_flow, cls_mask))
         IN  IF r.err # "none" THEN r
             ELSE ClassLoop(r.metric, Tail(cls_ids), pc0_pc, pc0_pc_class_info,
                            regressed_flow, ground_truth_flow)

\* An index that takes the first frame of the sequence.
SourceFrameFirst(frames) == frames[1]

\* frames[-2]: the second last frame of a sequence.
SourceFrame(frames) == frames[Len(frames) - 1]

\* frames[-1]: the last frame of a sequence.
TargetFrame(frames) == frames[Len(frames)]

\* The four indexed reads that open the body of the mini-batch loop, in the
\* order of the source, all succeed: each sequence has the frame that is
\* read and no index is out of bounds for it.
IndexedReadsOk(pc_array, flowed_pc_array, pc0_valid_point_idxes, pc1_valid_point_idxes, class_info) ==
    /\ Len(pc_array) >= 2
    /\ IndexesInRange(SourceFrame(pc_array), pc0_valid_point_idxes)
    /\ IndexesInRange(TargetFrame(pc_array), pc1_valid_point_idxes)
    /\ Len(flowed_pc_array) >= 2
    /\ IndexesInRange(SourceFrame(flowed_pc_array), pc0_valid_point_idxes)
    /\ Len(class_info) >= 2
    /\ IndexesInRange(SourceFrame(class_info), pc0_valid_point_idxes)

\* The body of the mini-batch loop for one sample: the pair is cut from the
\* last two frames ([-2] is the source frame, [-1] the target frame, whose
\* valid points pc1_pc are read and not used).  An indexed read that is out
\* of bounds raises IndexError before anything is added.  A shape
\* difference between the source points and the ground-truth flowed points
\* fails either in the subtraction or in the first assertion; both are
\* reported as ShapeMismatch.
SampleUpdate(metric, pc_array, flowed_pc_array, regressed_flow, pc0_valid_point_idxes, pc1_valid_point_idxes, class_info) ==
    LET pc0_pc == IndexSelect(SourceFrame(pc_array), pc0_valid_point_idxes)
        pc1_pc == IndexSelect(TargetFrame(pc_array), pc1_valid_point_idxes)
        ground_truth_flowed_pc0_to_pc1 ==
            IndexSelect(SourceFrame(flowed_pc_array), pc0_valid_point_idxes)
        pc0_pc_class_info ==
            IndexSelect(SourceFrame(class_info), pc0_valid_point_idxes)
    IN  IF ~IndexedReadsOk(pc_array, flowed_pc_array, pc0_valid_point_idxes,
                           pc1_valid_point_idxes, class_info)
        THEN [err |-> "IndexError", metric |-> metric]
        ELSE IF Shape(pc0_pc) # Shape(ground_truth_flowed_pc0_to_pc1)
        THEN [err |-> "ShapeMismatch", metric |-> metric]
        ELSE IF Shape(pc0_pc) # Shape(regressed_flow)
        THEN [err |-> "ShapeMismatch", metric |-> metric]
        ELSE LET ground_truth_flow == ArrSub(ground_truth_flowed_pc0_to_pc1, pc0_pc)
             IN  ClassLoop(metric, Unique(pc0_pc_class_info), pc0_pc,
                           pc0_pc_class_info, regressed_flow, ground_truth_flow)

\* The mini-batch loop: zip(...) over the six stacks, from sample i on, up to
\* the first sample that raises.
RECURSIVE SampleLoop(_, _, _, _)
SampleLoop(metric, input_batch, output_batch, i) ==
    LET n == Min2(Min2(Len(input_batch.pc_array_stack),
                       Len(input_batch.flowed_pc_array_stack)),
                  Min2(Min2(Len(output_batch.flow),
                            Len(output_batch.pc0_valid_point_idxes)),
                       Min2(Len(output_batch.pc1_valid_point_idxes),
                            Len(input_batch.pc_class_mask_stack))))
    IN  IF i > n THEN [err |-> "none", metric |-> metric]
        ELSE LET r == SampleUpdate(metric, input_batch.pc_array_stack[i],
                                   input_batch.flowed_pc_array_stack[i],
                                   output_batch.flow[i],
                                   output_batch.pc0_valid_point_idxes[i],
                                   output_batch.pc1_valid_point_idxes[i],
                                   input_batch.pc_class_mask_stack[i])
             IN  IF r.err # "none" THEN r
                 ELSE SampleLoop(r.metric, input_batch, output_batch, i + 1)

\* A validation step without the has_labels test.
validation_stepUnguarded(self, input_batch, output_batch) ==
    SampleLoop(update_runtime(self.metric, output_batch.batch_delta_time,
                              Len(input_batch.pc_array_stack)),
               input_batch, output_batch, 1)

\* validation_step: self is the wrapper's state that the step reads and
\* writes, [has_labels, metric]; the result is the metric after the step and
\* the error the step raised.
validation_step(self, input_batch, output_batch) ==
    IF ~self.has_labels THEN [err |-> "none", metric |-> self.metric]
    ELSE SampleLoop(update_runtime(self.metric, output_batch.batch_delta_time,
                                   Len(input_batch.pc_array_stack)),
                    input_batch, output_batch, 1)


\* A tensor handed to gather_fn: a 4-D tensor is kept, a scalar tensor is a
\* tensor with the single index <<>>.
Scalar(x) == [c \in {<<>>} |-> x]

\* A gather that reads the accumulator after reset() has run.
GatherInputAfterReset(self, k) ==
    CASE k = 1 -> Zeros(CellsOf(self))
      [] k = 2 -> Zeros(CellsOf(self))
      [] k = 3 -> Scalar(0)
      [] k = 4 -> Scalar(0)

\* gather: the tensor of the k-th gather_fn call, in the order of the source.
GatherInput(self, k) ==
    CASE k = 1 -> self.per_class_bucketed_error_sum
      [] k = 2 -> self.per_class_bucketed_error_count
      [] k = 3 -> Scalar(self.total_forward_time)
      [] k = 4 -> Scalar(self.total_forward_count)

RECURSIVE SeqSum(_)
SeqSum(q) == IF q = <<>> THEN 0 ELSE Head(q) + SeqSum(Tail(q))

\* A sum that leaves out the last process of the stack.
SumDim0DropLast(stack) ==
    [c \in DOMAIN stack[1] |->
        SeqSum([i \in 1..(Len(stack) - 1) |-> stack[i][c]])]

\* torch.sum(stack, dim=0): the stack is the sequence of the processes'
\* tensors in rank order.
SumDim0(stack) ==
    [c \in DOMAIN stack[1] |-> SeqSum([i \in 1..Len(stack) |-> stack[i][c]])]

\* A reduction that returns the first tensor of the stack unsummed.
SumDim0FloatFirst(stack) == stack[1]

\* torch.sum(stack, dim=0) on a stack of float32 tensors.
SumDim0Float(stack) ==
    [c \in DOMAIN stack[1] |-> FloatSum([i \in 1..Len(stack) |-> stack[i][c]])]

\* The k-th sum of gather: the error sum (1) and the forward time (3) are
\* float32 tensors, the error count (2) and the forward count (4) integer.
GatherSum(k, stack) ==
    IF k \in {1, 3} THEN SumDim0Float(stack) ELSE SumDim0(stack)

\* gather, for a gather_fn that returns the stack of the tensors of the
\* accumulators in `stacked`, in that order: the four sums.
gather(stacked) ==
    [k \in 1..4 |->
        GatherSum(k, [i \in 1..Len(stacked) |-> GatherInput(stacked[i], k)])]

\* The accumulator that holds what gather returns for the stack <<A, B>>.
merge(A, B) ==
    LET g == gather(<<A, B>>)
    IN  [A EXCEPT !.per_class_bucketed_error_sum = g[1],
                  !.per_class_bucketed_error_count = g[2],
                  !.total_forward_time = g[3][<<>>],
                  !.total_forward_count = g[4][<<>>]]

\* A gather that clears the accumulator once it has read it.
AfterGatherCleared(self) ==
    [self EXCEPT !.per_class_bucketed_error_sum = Zeros(CellsOf(self)),
                 !.per_class_bucketed_error_count = Zeros(CellsOf(self)),
                 !.total_forward_time = 0,
                 !.total_forward_count = 0]

\* The accumulator after gather has run: gather assigns to locals only.
AfterGather(self) == self

Gcd(a, b) == CHOOSE g \in 1..Max2(Max2(a, b), 1) :
                 /\ a % g = 0 /\ b % g = 0
                 /\ \A h \in 1..Max2(Max2(a, b), 1) : (a % h = 0 /\ b % h = 0) => h <= g

\* total_forward_time / total_forward_count on tensors: a float division,
\* which raises nothing; 0/0 is nan and x/0 is inf.  A finite quotient is
\* kept as a reduced fraction.
TrueDivide(a, b) ==
    IF b = 0
    THEN [kind |-> IF a = 0 THEN "nan" ELSE "inf", num |-> 0, den |-> 0]
    ELSE [kind |-> "finite", num |-> a \div Gcd(a, b), den |-> b \div Gcd(a, b)]

\* A rank test that lets every process through.
ReturnsEarlyNever(global_rank) == FALSE

\* if self.global_rank != 0: return {}
ReturnsEarly(global_rank) == global_rank # 0

\* validation_result_dict, from the gathered tensors.
ValidationResultDict(error_sum, error_count, total_forward_time, total_forward_count) ==
    [per_class_bucketed_error_sum |-> error_sum,
     per_class_bucketed_error_count |-> error_count,
     average_forward_time |-> TrueDivide(total_forward_time, total_forward_count)]

\* The sum of f[x] over x in S.
RECURSIVE SetSum(_, _)
SetSum(S, f) ==
    IF S = {} THEN 0
    ELSE LET x == CHOOSE y \in S : TRUE IN f[x] + SetSum(S \ {x}, f)

\* A mean that divides whatever the count is.
GuardedMeanUnguarded(sum, count) == TrueDivide(sum, count)

\* The reporter's mean of an aggregate: an aggregate without points has the
\* mean 0, any other the quotient of its error sum and its count.
GuardedMean(sum, count) ==
    IF count = 0 THEN TrueDivide(0, 1) ELSE TrueDivide(sum, count)

\* ResultInfo(name, validation_result_dict, full_distance): the cells the
\* reporter aggregates over, 'ALL' for both proximity slices and 'CLOSE'
\* for the close one; movers are the points of every category but the
\* first (background), non-movers the points of the first.
ResultInfoCells(validation_result_dict, full_distance, movers) ==
    {c \in DOMAIN validation_result_dict.per_class_bucketed_error_count :
        /\ (full_distance = "CLOSE" => c[1] = 0)
        /\ (movers <=> c[2] # 0)}

\* The mean endpoint error over the cells of an aggregate.
ResultInfoEpe(validation_result_dict, full_distance, movers) ==
    LET cells == ResultInfoCells(validation_result_dict, full_distance, movers)
    IN  GuardedMean(SetSum(cells, validation_result_dict.per_class_bucketed_error_sum),
                    SetSum(cells, validation_result_dict.per_class_bucketed_error_count))

get_nonmover_point_epe(validation_result_dict, full_distance) ==
    ResultInfoEpe(validation_result_dict, full_distance, FALSE)

get_mover_point_dynamic_epe(validation_result_dict, full_distance) ==
    ResultInfoEpe(validation_result_dict, full_distance, TRUE)

\* _log_validation_metrics: the four scalars passed to self.log.
log_validation_metrics(validation_result_dict) ==
    [full_nonmover_epe |-> get_nonmover_point_epe(validation_result_dict, "ALL"),
     full_mover_epe |-> get_mover_point_dynamic_epe(validation_result_dict, "ALL"),
     close_nonmover_epe |-> get_nonmover_point_epe(validation_result_dict, "CLOSE"),
     close_mover_epe |-> get_mover_point_dynamic_epe(validation_result_dict, "CLOSE")]

\* ------------------------------------------------------------ configuration

\* The key order of CATEGORY_ID_TO_NAME (ids need not equal their indices).
CategoryIds == <<-1, 4>>

\* Sorted boundary lists of three and of two values.  A speed of 0 or 10
\* (an endpoint error of 0 or 1) is then inside the first bucket, on the
\* boundary between two buckets, below the first boundary, or at the last.
SpeedSplitChoices == {<<0, 10, 20>>, <<0, 10>>, <<10, 20>>}

EpeSplitChoices == {<<0, 1, 2>>, <<0, 1>>, <<1, 2>>}

\* --------------------------------------------------------------- the inputs

\* Sequences over S of length 0..n.
RECURSIVE SeqsUpTo(_, _)
SeqsUpTo(S, n) ==
    IF n = 0 THEN {<<>>}
    ELSE LET shorter == SeqsUpTo(S, n - 1)
         IN  shorter \cup {Append(q, x) : q \in shorter, x \in S}

\* One point of a call: its coordinates, its ground-truth flow and its
\* predicted flow.  L-inf xy distance 35 (close, on the threshold) or 36
\* (far); speed 0 or 10; endpoint error 0 or 1.
UnitPoints ==
    {[pc |-> c, gt |-> g, reg |-> VecSub(g, <<0, 0, -e>>)] :
        c \in {<<35, -35, 1>>, <<0, 36, 0>>},
        g \in {<<0, 0, 0>>, <<0, 1, 0>>},
        e \in {0, 1}}

Column(points, field) == [i \in 1..Len(points) |-> points[i][field]]

DropLast(a) == SubSeq(a, 1, Len(a) - 1)

\* Every row cut to its first two coordinates.
TwoCols(a) == [i \in 1..Len(a) |-> SubSeq(a[i], 1, 2)]

UnitArrays == SeqsUpTo(UnitPoints, MaxPoints) \ {<<>>}

OnePointArrays == {<<p>> : p \in UnitPoints}

BadShapeArrays ==
    {a \in OnePointArrays : a[1].pc = <<35, -35, 1>> /\ a[1].gt = <<0, 1, 0>>}

\* The arguments of one update_class_error call.
Call(pc, class_id, regressed_flow, gt_flow) ==
    [pc |-> pc, class_id |-> class_id, regressed_flow |-> regressed_flow,
     gt_flow |-> gt_flow]

\* Calls with a configured category and arrays of matching shape.
GoodCalls ==
    {Call(Column(pts, "pc"), c, Column(pts, "reg"), Column(pts, "gt")) :
        pts \in UnitArrays, c \in {-1, 4}}

\* Calls with a category id absent from the table.
UnknownIdCalls ==
    {Call(Column(pts, "pc"), 9, Column(pts, "reg"), Column(pts, "gt")) :
        pts \in OnePointArrays}

\* Calls whose arrays disagree: the ground-truth flow or the points one row
\* short, or points of two coordinates.
BadShapeCalls ==
    UNION {{Call(Column(pts, "pc"), c, Column(pts, "reg"), DropLast(Column(pts, "gt"))),
            Call(DropLast(Column(pts, "pc")), c, Column(pts, "reg"), Column(pts, "gt")),
            Call(TwoCols(Column(pts, "pc")), c, Column(pts, "reg"), Column(pts, "gt"))} :
           pts \in BadShapeArrays, c \in {4, 9}}

UnitCalls == GoodCalls \cup UnknownIdCalls \cup BadShapeCalls

\* A sample of a batch.  Every frame starts with one point the model
\* marks invalid, so pc0_valid_point_idxes selects rows 2..n+1 of the source
\* frame, the second last, and pc1_valid_point_idxes the like rows of the
\* target frame, the last.
Sample(pc0, flowed, regressed_flow, class_info) ==
    LET pad(a) == <<[i \in 1..Shape(a)[2] |-> 50]>> \o a
    IN  [pc_array |-> <<pad(pc0), pad(flowed)>>,
         flowed_pc_array |-> <<pad(flowed), pad(flowed)>>,
         flow |-> regressed_flow,
         pc0_valid_point_idxes |-> [i \in 1..Len(pc0) |-> i + 1],
         pc1_valid_point_idxes |-> [i \in 1..Len(flowed) |-> i + 1],
         class_info |-> <<<<9>> \o class_info, <<9>> \o class_info>>]

\* A sample whose model output names other valid points of the target frame.
WithTargetIdxes(sample, idxes) == [sample EXCEPT !.pc1_valid_point_idxes = idxes]

GoodPc == <<<<35, -35, 1>>, <<0, 36, 0>>>>
GoodFlowed == <<<<35, -34, 1>>, <<0, 36, 0>>>>
GoodRegressed == <<<<0, 1, 0>>, <<0, 0, 1>>>>

\* Well-formed samples, a sample with a category absent from the table,
\* samples whose arrays disagree in point count or in coordinates, and a
\* sample whose target indices lie past the target frame's three rows.
UnitSamples ==
    { Sample(GoodPc, GoodFlowed, GoodRegressed, <<4, -1>>),
      WithTargetIdxes(Sample(GoodPc, GoodFlowed, GoodRegressed, <<4, -1>>), <<8, 9>>),
      Sample(GoodPc, GoodFlowed, GoodRegressed, <<4, 4>>),
      Sample(GoodPc, GoodFlowed, GoodRegressed, <<4, 9>>),
      Sample(GoodPc, GoodFlowed, DropLast(GoodRegressed), <<4, -1>>),
      Sample(GoodPc, TwoCols(GoodFlowed), GoodRegressed, <<4, -1>>),
      Sample(TwoCols(GoodPc), TwoCols(GoodFlowed), TwoCols(GoodRegressed), <<4, -1>>) }

\* A sample with one more frame in front of its sequence: other points,
\* other flowed points and other class labels than the source frame has.
WithEarlierFrame(sample, pc_frame, flowed_frame, class_frame) ==
    [sample EXCEPT !.pc_array = <<<<<<50, 50, 50>>>> \o pc_frame>> \o @,
                   !.flowed_pc_array = <<<<<<50, 50, 50>>>> \o flowed_frame>> \o @,
                   !.class_info = <<<<9>> \o class_frame>> \o @]

\* Samples of three frames: the first frame has the two points in the other
\* order and at rest, labelled background or with an id absent from the table.
LongSamples ==
    { WithEarlierFrame(Sample(GoodPc, GoodFlowed, GoodRegressed, <<4, -1>>),
                       <<GoodPc[2], GoodPc[1]>>, <<GoodPc[2], GoodPc[1]>>, labels) :
          labels \in {<<-1, -1>>, <<9, 9>>} }

\* A batch: the dataset's stacks and the model's output for them.
Batch(samples, delta) ==
    [input |-> [pc_array_stack |-> Column(samples, "pc_array"),
                flowed_pc_array_stack |-> Column(samples, "flowed_pc_array"),
                pc_class_mask_stack |-> Column(samples, "class_info")],
     output |-> [batch_delta_time |-> delta,
                 flow |-> Column(samples, "flow"),
                 pc0_valid_point_idxes |-> Column(samples, "pc0_valid_point_idxes"),
                 pc1_valid_point_idxes |-> Column(samples, "pc1_valid_point_idxes")]]

\* Batches of one sample, and of a well-formed sample followed by another.
UnitBatches ==
    {Batch(<<x>>, 3) : x \in UnitSamples \cup LongSamples}
    \cup {Batch(<<Sample(GoodPc, GoodFlowed, GoodRegressed, <<4, -1>>), x>>, 3) :
              x \in UnitSamples}


\* -------------------------------------------------------------------- state

VARIABLES
    has_labels,   \* cfg.has_labels, the same on every process
    acc,          \* unit level: the accumulator of the one wrapper under test
    last,         \* unit level: the last call, its arguments, the accumulator
                  \* before it and the error it raised
    nops,         \* unit level: calls made so far
    metric,       \* per rank: self.metric, the private accumulator
    pc,           \* per rank: "validate", "gather" (inside validation_epoch_end,
                  \* blocked in a gather_fn call) or "failed" (a step raised)
    epoch,        \* per rank: validation epochs completed
    steps,        \* per rank: validation steps run in the current epoch
    slots,        \* per rank: the tensors it has handed to all_gather, in call order
    partial,      \* per rank: the sums its gather has computed so far this epoch
    saved_file,   \* the content of validation_results/<filename>.pkl
    report_log,   \* history: the reports produced, with the rank that produced each
    snap,         \* history, per rank: the accumulator, and fed, when each
                  \* epoch end began
    totals,       \* history, per rank: the four sums its gather returned, per epoch
    fed,          \* history, per rank: forward time and sample count the
                  \* validation steps of the current epoch passed to
                  \* update_runtime, and (acc) what an accumulator holds that was
                  \* fresh when the epoch began and saw the epoch's steps
    operands,     \* merge level: the three accumulators that are combined
    merged        \* merge level: the results of combining them

unit_vars == <<has_labels, acc, last, nops>>

proto_vars == <<metric, pc, epoch, steps, slots, partial, saved_file, report_log, snap, totals, fed>>

merge_vars == <<operands, merged>>

vars == <<has_labels, acc, last, nops, metric, pc, epoch, steps, slots, partial, saved_file, report_log, snap, totals, fed, operands, merged>>

NoBatch == Batch(<<>>, 0)

\* The record of a call: its arguments, the accumulator before it (pre), the
\* error it raised and, for a gather, what it returned (ret), the call
\* before it and what that returned, whether only gathers lie between it
\* and the last reset, and the accumulator that reset found.
NoCall == [op |-> "init", pc |-> <<>>, class_id |-> 0, regressed_flow |-> <<>>,
           gt_flow |-> <<>>, batch |-> NoBatch, run_time |-> 0, run_count |-> 0,
           pre |-> <<>>, err |-> "none", ret |-> <<>>, prev_op |-> "init",
           prev_ret |-> <<>>, since_reset |-> FALSE, reset_pre |-> <<>>]

\* ---------------------------------------------- unit level: one accumulator

UnitInit ==
    /\ has_labels = TRUE
    /\ \E ss \in SpeedSplitChoices, es \in EpeSplitChoices :
           acc = MetricInit(CategoryIds, ss, es)
    /\ last = NoCall
    /\ nops = 0
    /\ metric = <<>> /\ pc = <<>> /\ epoch = <<>> /\ steps = <<>> /\ slots = <<>>
    /\ partial = <<>> /\ saved_file = <<>> /\ report_log = <<>> /\ snap = <<>>
    /\ totals = <<>> /\ fed = <<>>
    /\ operands = <<>> /\ merged = <<>>

CallUpdateClassError ==
    /\ nops < MaxOps
    /\ \E c \in UnitCalls :
        LET r == update_class_error(acc, c.pc, c.class_id, c.regressed_flow,
                                    c.gt_flow)
        IN  /\ acc' = r.metric
            /\ last' = [NoCall EXCEPT !.op = "update_class_error", !.pc = c.pc,
                           !.class_id = c.class_id,
                           !.regressed_flow = c.regressed_flow,
                           !.gt_flow = c.gt_flow, !.pre = acc, !.err = r.err]
    /\ nops' = nops + 1
    /\ UNCHANGED <<has_labels, proto_vars, merge_vars>>

CallUpdateRuntime ==
    /\ nops < MaxOps
    /\ \E run_time \in {3}, run_count \in 0..2 :
        /\ acc' = update_runtime(acc, run_time, run_count)
        /\ last' = [NoCall EXCEPT !.op = "update_runtime", !.run_time = run_time,
                       !.run_count = run_count, !.pre = acc]
    /\ nops' = nops + 1
    /\ UNCHANGED <<has_labels, proto_vars, merge_vars>>

CallReset ==
    /\ nops < MaxOps
    /\ acc' = reset(acc)
    /\ last' = [NoCall EXCEPT !.op = "reset", !.pre = acc]
    /\ nops' = nops + 1
    /\ UNCHANGED <<has_labels, proto_vars, merge_vars>>

CallValidationStep ==
    /\ nops < MaxOps
    /\ \E b \in UnitBatches :
        LET r == validation_step([has_labels |-> has_labels, metric |-> acc],
                                 b.input, b.output)
        IN  /\ acc' = r.metric
            /\ last' = [NoCall EXCEPT !.op = "validation_step", !.batch = b,
                           !.pre = acc, !.err = r.err]
    /\ nops' = nops + 1
    /\ UNCHANGED <<has_labels, proto_vars, merge_vars>>

\* gather on the one process of the unit-level runs: gather_fn returns the
\* stack of that process's tensor alone.  A gather is a read and is not
\* counted among the calls.
CallGather ==
    /\ acc' = AfterGather(acc)
    /\ last' = [NoCall EXCEPT !.op = "gather", !.pre = acc,
                   !.ret = gather(<<acc>>),
                   !.prev_op = last.op, !.prev_ret = last.ret,
                   !.since_reset = (last.op = "reset")
                                   \/ (last.op = "gather" /\ last.since_reset),
                   !.reset_pre = IF last.op = "reset" THEN last.pre
                                 ELSE last.reset_pre]
    /\ UNCHANGED <<has_labels, nops, proto_vars, merge_vars>>

UnitNext ==
    \/ CallUpdateClassError
    \/ CallUpdateRuntime
    \/ CallReset
    \/ CallValidationStep
    \/ CallGather

SpecUnit == UnitInit /\ [][UnitNext]_vars


\* ------------------------------------- the validation protocol, P processes

Ranks == 0..(NumProcs - 1)

\* The accumulator every wrapper constructs.
ProtoMetric == MetricInit(CategoryIds, <<0, 10, 20>>, <<0, 1, 2>>)

\* The batches of the validation steps: no sample, two well-formed samples
\* of two points each, and a sample with an absent category id.
ProtoBatches ==
    { Batch(<<>>, 3),
      Batch(<<Sample(GoodPc, GoodFlowed, GoodRegressed, <<4, 4>>),
              Sample(GoodPc, GoodFlowed, GoodRegressed, <<4, -1>>)>>, 5),
      Batch(<<Sample(GoodPc, GoodFlowed, GoodRegressed, <<4, 9>>)>>, 3) }

NoFile == [exists |-> FALSE, content |-> <<>>]

\* self.has_labels = True if not hasattr(cfg, "has_labels") else cfg.has_labels
HasLabels(cfg) == IF "has_labels" \in DOMAIN cfg THEN cfg.has_labels ELSE TRUE

\* configs/nsfp/argo/pseudolabel_train_cached.py: is_trainable = False,
\* has_labels = False.
PseudolabelCfg == [is_trainable |-> FALSE, has_labels |-> FALSE]

\* The configurations a wrapper is built from: the pseudo-label one, one
\* that sets has_labels to True and one that does not set it.
WrapperCfgs ==
    {PseudolabelCfg, [is_trainable |-> FALSE, has_labels |-> TRUE],
     [is_trainable |-> FALSE]}

Init ==
    /\ has_labels \in {HasLabels(cfg) : cfg \in WrapperCfgs}
    /\ metric = [p \in Ranks |-> ProtoMetric]
    /\ pc = [p \in Ranks |-> "validate"]
    /\ epoch = [p \in Ranks |-> 0]
    /\ steps = [p \in Ranks |-> 0]
    /\ slots = [p \in Ranks |-> <<>>]
    /\ partial = [p \in Ranks |-> <<>>]
    /\ saved_file = NoFile
    /\ report_log = <<>>
    /\ snap = [p \in Ranks |-> <<>>]
    /\ totals = [p \in Ranks |-> <<>>]
    /\ fed = [p \in Ranks |-> [time |-> 0, count |-> 0, acc |-> ProtoMetric]]
    /\ acc = <<>> /\ last = NoCall /\ nops = 0
    /\ operands = <<>> /\ merged = <<>>

\* validation_step on process p.  A step that raises ends the process.
ValidationStep(p) ==
    /\ pc[p] = "validate"
    /\ epoch[p] < MaxEpochs
    /\ steps[p] < MaxSteps
    /\ \E b \in ProtoBatches :
        LET r == validation_step([has_labels |-> has_labels, metric |-> metric[p]],
                                 b.input, b.output)
        IN  /\ metric' = [metric EXCEPT ![p] = r.metric]
            /\ pc' = [pc EXCEPT ![p] = IF r.err = "none" THEN "validate" ELSE "failed"]
            /\ fed' = [fed EXCEPT ![p] =
                          IF has_labels
                          THEN [time |-> @.time + b.output.batch_delta_time,
                                count |-> @.count + Len(b.input.pc_array_stack),
                                acc |-> validation_step([has_labels |-> has_labels,
                                                         metric |-> @.acc],
                                                        b.input, b.output).metric]
                          ELSE @]
    /\ steps' = [steps EXCEPT ![p] = @ + 1]
    /\ UNCHANGED <<unit_vars, merge_vars, epoch, slots, partial, saved_file, report_log, snap, totals>>

\* self.all_gather is the framework's blocking collective: the n-th call of
\* a process returns, once every process has made its n-th call, the stack
\* of the tensors the processes passed, in rank order.
AllContributed(n) == \A q \in Ranks : Len(slots[q]) >= n

Stack(n) == [i \in 1..NumProcs |-> slots[i - 1][n]]

\* validation_epoch_end up to its first gather_fn call, which blocks.
EpochEndBegin(p) ==
    /\ pc[p] = "validate"
    /\ epoch[p] < MaxEpochs
    /\ steps[p] >= 1
    /\ slots' = [slots EXCEPT ![p] = Append(@, GatherInput(metric[p], 1))]
    /\ pc' = [pc EXCEPT ![p] = "gather"]
    /\ snap' = [snap EXCEPT ![p] = Append(@, [metric |-> metric[p], fed |-> fed[p]])]
    /\ UNCHANGED <<unit_vars, merge_vars, metric, epoch, steps, partial, saved_file, report_log, totals, fed>>

\* A gather_fn call other than the last returns: its stack is summed and
\* the next call is made, which blocks.
GatherNext(p) ==
    /\ pc[p] = "gather"
    /\ Len(partial[p]) < 3
    /\ AllContributed(Len(slots[p]))
    /\ partial' = [partial EXCEPT ![p] =
                       Append(@, GatherSum(Len(@) + 1, Stack(Len(slots[p]))))]
    /\ slots' = [slots EXCEPT ![p] = Append(@, GatherInput(metric[p], Len(partial[p]) + 2))]
    /\ UNCHANGED <<unit_vars, merge_vars, metric, pc, epoch, steps, saved_file, report_log, snap, totals, fed>>

\* The last gather_fn call returns and validation_epoch_end runs to its
\* end: the accumulator is reset, every rank but 0 returns, rank 0 builds
\* the result dict, logs it and saves it.
EpochEndFinish(p) ==
    /\ pc[p] = "gather"
    /\ Len(partial[p]) = 3
    /\ AllContributed(Len(slots[p]))
    /\ LET per_class_bucketed_error_sum == partial[p][1]
           per_class_bucketed_error_count == partial[p][2]
           total_forward_time == partial[p][3][<<>>]
           total_forward_count == GatherSum(4, Stack(Len(slots[p])))[<<>>]
           validation_result_dict ==
               ValidationResultDict(per_class_bucketed_error_sum,
                                    per_class_bucketed_error_count,
                                    total_forward_time, total_forward_count)
       IN  /\ metric' = [metric EXCEPT ![p] = reset(@)]
           /\ totals' = [totals EXCEPT ![p] =
                            Append(@, <<per_class_bucketed_error_sum,
                                        per_class_bucketed_error_count,
                                        total_forward_time, total_forward_count>>)]
           /\ IF ReturnsEarly(p)
              THEN UNCHANGED <<saved_file, report_log>>
              ELSE /\ saved_file' = [exists |-> TRUE, content |-> validation_result_dict]
                   /\ report_log' = Append(report_log,
                                           [rank |-> p, epoch |-> epoch[p] + 1,
                                            total_forward_time |-> total_forward_time,
                                            total_forward_count |-> total_forward_count,
                                            report |-> validation_result_dict,
                                            logged |-> log_validation_metrics(
                                                           validation_result_dict)])
    /\ pc' = [pc EXCEPT ![p] = "validate"]
    /\ epoch' = [epoch EXCEPT ![p] = @ + 1]
    /\ steps' = [steps EXCEPT ![p] = 0]
    /\ partial' = [partial EXCEPT ![p] = <<>>]
    /\ fed' = [fed EXCEPT ![p] = [time |-> 0, count |-> 0, acc |-> ProtoMetric]]
    /\ UNCHANGED <<unit_vars, merge_vars, slots, snap>>

Next ==
    \E p \in Ranks :
        \/ ValidationStep(p)
        \/ EpochEndBegin(p)
        \/ GatherNext(p)
        \/ EpochEndFinish(p)

Spec == Init /\ [][Next]_vars

\* ------------------------- unit level, on an accumulator that has run long

\* The cell of close points of category 4 at rest with an endpoint error in
\* [1, 2).
LongRunCell == <<0, 1, 0, 1>>

\* The accumulator after 2^24 samples of one such point each, of endpoint
\* error 1 and forward time 1: every sum up to here is a float32, so the
\* tensors hold the exact totals.
LongRunMetric ==
    [ProtoMetric EXCEPT !.per_class_bucketed_error_sum[LongRunCell] = Float32ExactLimit,
                        !.per_class_bucketed_error_count[LongRunCell] = Float32ExactLimit,
                        !.total_forward_time = Float32ExactLimit,
                        !.total_forward_count = Float32ExactLimit]

\* The calls of the unit level, made on a fresh accumulator or on one that
\* has run long.
LongRunInit ==
    /\ has_labels = TRUE
    /\ acc \in {ProtoMetric, LongRunMetric}
    /\ last = NoCall
    /\ nops = 0
    /\ metric = <<>> /\ pc = <<>> /\ epoch = <<>> /\ steps = <<>> /\ slots = <<>>
    /\ partial = <<>> /\ saved_file = <<>> /\ report_log = <<>> /\ snap = <<>>
    /\ totals = <<>> /\ fed = <<>>
    /\ operands = <<>> /\ merged = <<>>

SpecLongRun == LongRunInit /\ [][UnitNext]_vars

\* ------------------------------- merge level: combining three accumulators

\* The accumulator every process of the merge-level runs constructs; its
\* error bucket [1, 3) takes endpoint errors of 1 and of 2.
MergeMetric == MetricInit(CategoryIds, <<0, 10>>, <<1, 3>>)

\* MergeMetric after updates that put error sum s and count n into cell c
\* and forward time t and count k into the scalars.
Accumulated(c, s, n, t, k) ==
    [MergeMetric EXCEPT !.per_class_bucketed_error_sum[c] = s,
                        !.per_class_bucketed_error_count[c] = n,
                        !.total_forward_time = t,
                        !.total_forward_count = k]

\* Accumulators a process can hold at a gather: untouched; after one or two
\* points; after 2^24 points of endpoint error 1 in one cell, from 2^24
\* samples of forward time 1 (every partial sum of which is exact); and the
\* same with two of the points of endpoint error 2.
MergeAccumulators ==
    { MergeMetric,
      Accumulated(<<0, 1, 0, 0>>, 1, 1, 3, 1),
      Accumulated(<<0, 1, 0, 0>>, 3, 2, 5, 2),
      Accumulated(<<0, 1, 0, 0>>, 2, 1, 4, 1),
      Accumulated(<<1, 0, 0, 0>>, 1, 1, 3, 1),
      Accumulated(<<0, 1, 0, 0>>, Float32ExactLimit, Float32ExactLimit,
                  Float32ExactLimit, Float32ExactLimit),
      Accumulated(<<0, 1, 0, 0>>, Float32ExactLimit + 2, Float32ExactLimit, 3, 1) }

\* The orders in which three processes' tensors can be stacked.
StackOrders ==
    {o \in [1..3 -> 1..3] : \A i \in 1..3, j \in 1..3 : o[i] = o[j] => i = j}

MergeInit ==
    /\ operands \in [1..3 -> MergeAccumulators]
    /\ merged = [pairs |-> <<>>, stacks |-> <<>>]
    /\ has_labels = TRUE /\ acc = <<>> /\ last = NoCall /\ nops = 0
    /\ metric = <<>> /\ pc = <<>> /\ epoch = <<>> /\ steps = <<>> /\ slots = <<>>
    /\ partial = <<>> /\ saved_file = <<>> /\ report_log = <<>> /\ snap = <<>>
    /\ totals = <<>> /\ fed = <<>>

\* The operands are combined two at a time, in both orders and groupings.
MergeOperands ==
    /\ merged.pairs = <<>>
    /\ LET A == operands[1]
           B == operands[2]
           C == operands[3]
       IN  merged' = [merged EXCEPT !.pairs =
                         [ab |-> merge(A, B), ba |-> merge(B, A),
                          ab_c |-> merge(merge(A, B), C),
                          a_bc |-> merge(A, merge(B, C))]]
    /\ UNCHANGED <<unit_vars, proto_vars, operands>>

\* One gather over the three operands, for every order of the stack.
GatherOperands ==
    /\ merged.stacks = <<>>
    /\ merged' = [merged EXCEPT !.stacks =
                     [o \in StackOrders |->
                         gather([i \in 1..3 |-> operands[o[i]]])]]
    /\ UNCHANGED <<unit_vars, proto_vars, operands>>

MergeNext == MergeOperands \/ GatherOperands

SpecMerge == MergeInit /\ [][MergeNext]_vars

\* ------------------------------------------------- properties: unit level

\* The last call was an update_class_error that returned.
LastUpdateReturned == last.op = "update_class_error" /\ last.err = "none"

\* The arrays of the last update_class_error call agree in shape.
LastShapesAgree ==
    /\ Len(last.pc) = Len(last.regressed_flow)
    /\ Len(last.pc) = Len(last.gt_flow)
    /\ \A i \in 1..Len(last.pc) :
        Len(last.pc[i]) = 3 /\ Len(last.regressed_flow[i]) = Len(last.gt_flow[i])

\* Speed and endpoint error of point i of the last call.
PointSpeed(i) == Norm2(last.gt_flow[i]) * per_frame_to_per_second_scale_factor

PointEpe(i) == Norm2(VecSub(last.regressed_flow[i], last.gt_flow[i]))

\* Proximity index of point i of the last call: 0 close, 1 far.
PointProximity(i) ==
    IF Max2(Abs(last.pc[i][1]), Abs(last.pc[i][2])) <= close_object_threshold_meters
    THEN 0 ELSE 1

\* Index of a category id in the key order of the table.
CategoryIndex(id) == (CHOOSE k \in 1..Len(CategoryIds) : CategoryIds[k] = id) - 1

\* v lies in [boundaries[i], boundaries[i+1]), i counted from 0.
InBucket(boundaries, i, v) == boundaries[i + 1] <= v /\ v < boundaries[i + 2]

SpeedSplits == acc.speed_bucket_splits_meters_per_second

EpeSplits == acc.endpoint_error_splits_meters

\* Point i of the last call lies in a speed bucket and in an error bucket.
PointInRange(i) ==
    /\ \E b \in 0..(Len(SpeedSplits) - 2) : InBucket(SpeedSplits, b, PointSpeed(i))
    /\ \E b \in 0..(Len(EpeSplits) - 2) : InBucket(EpeSplits, b, PointEpe(i))

\* The points of the last call that the claim assigns to cell c.
PointsOfCell(c) ==
    {i \in 1..Len(last.pc) :
        /\ PointProximity(i) = c[1]
        /\ CategoryIndex(last.class_id) = c[2]
        /\ InBucket(SpeedSplits, c[3], PointSpeed(i))
        /\ InBucket(EpeSplits, c[4], PointEpe(i))}

PointEpes == [i \in 1..Len(last.pc) |-> PointEpe(i)]

CountDelta(c) ==
    acc.per_class_bucketed_error_count[c] - last.pre.per_class_bucketed_error_count[c]

SumDelta(c) ==
    acc.per_class_bucketed_error_sum[c] - last.pre.per_class_bucketed_error_sum[c]

TensorsUnchanged ==
    /\ acc.per_class_bucketed_error_sum = last.pre.per_class_bucketed_error_sum
    /\ acc.per_class_bucketed_error_count = last.pre.per_class_bucketed_error_count

\* C6: a boundary list of length N gives N-1 buckets, for speed and for
\* endpoint error alike, and a returned update counts under the pair of
\* buckets (i, j) exactly the points whose speed v has
\* boundaries[i] <= v < boundaries[i+1] and whose error lies likewise in j;
\* a value on a bucket's upper bound is counted in the next bucket.
C6_HalfOpenBuckets ==
    /\ Len(speed_bucket_bounds(acc)) = Len(SpeedSplits) - 1
    /\ Len(epe_bucket_bounds(acc)) = Len(EpeSplits) - 1
    /\ {c[3] : c \in CellsOf(acc)} = 0..(Len(SpeedSplits) - 2)
    /\ {c[4] : c \in CellsOf(acc)} = 0..(Len(EpeSplits) - 2)
    /\ DOMAIN acc.per_class_bucketed_error_count = CellsOf(acc)
    /\ LastUpdateReturned =>
        \A i \in 0..(Len(SpeedSplits) - 2), j \in 0..(Len(EpeSplits) - 2) :
            LET k == CategoryIndex(last.class_id)
            IN  CountDelta(<<0, k, i, j>>) + CountDelta(<<1, k, i, j>>)
                = Cardinality({p \in 1..Len(last.pc) :
                                  /\ InBucket(SpeedSplits, i, PointSpeed(p))
                                  /\ InBucket(EpeSplits, j, PointEpe(p))})

\* A returned update had a point whose speed equals the upper bound of
\* bucket 0 of a three-value list, and the point was counted in bucket 1.
C6_Witness ==
    /\ LastUpdateReturned
    /\ Len(SpeedSplits) = 3
    /\ Len(last.pc) = 1
    /\ PointSpeed(1) = SpeedSplits[2]
    /\ PointInRange(1)
    /\ \E c \in CellsOf(acc) : c[3] = 1 /\ CountDelta(c) = 1
    /\ \A c \in CellsOf(acc) : c[3] = 0 => CountDelta(c) = 0

\* C7 as stated: a returned update adds, at every cell, one to error_count
\* and the endpoint error to error_sum for each in-range point of the call
\* that resolves to that cell (proximity, category index, speed bucket,
\* error bucket), changes no other cell, and leaves the forward time and
\* count as they were.  The sum is compared with the exact sum of the
\* errors, which the float32 cell holds only while no addition rounds.
C7_UpdateAddsAtResolvedCell ==
    LastUpdateReturned =>
        /\ \A c \in CellsOf(acc) :
            /\ CountDelta(c) = Cardinality(PointsOfCell(c))
            /\ SumDelta(c) = SetSum(PointsOfCell(c), PointEpes)
        /\ acc.total_forward_time = last.pre.total_forward_time
        /\ acc.total_forward_count = last.pre.total_forward_count

\* An update of one in-range point with a positive endpoint error was made
\* on an accumulator that already held counts and a forward count; one cell
\* grew by one and by that error.
C7_Witness ==
    /\ LastUpdateReturned
    /\ Len(last.pc) = 1
    /\ PointInRange(1)
    /\ PointEpe(1) > 0
    /\ last.pre.total_forward_count > 0
    /\ \E c \in CellsOf(acc) : last.pre.per_class_bucketed_error_count[c] > 0
    /\ \E c \in CellsOf(acc) :
        /\ CountDelta(c) = 1
        /\ SumDelta(c) = PointEpe(1)
        /\ \A d \in CellsOf(acc) \ {c} : CountDelta(d) = 0 /\ SumDelta(d) = 0

\* C8: an update whose arrays agree and whose category is configured
\* returns without error whatever the points' speeds and errors are, and a
\* point below the first or at or beyond the last boundary adds to no cell:
\* the counts grow by the number of in-range points and the sums by their
\* errors.
C8_OutOfRangeDropped ==
    (last.op = "update_class_error" /\ LastShapesAgree
     /\ last.class_id \in {CategoryIds[k] : k \in 1..Len(CategoryIds)}) =>
        LET inrange == {i \in 1..Len(last.pc) : PointInRange(i)}
        IN  /\ last.err = "none"
            /\ SetSum(CellsOf(acc), [c \in CellsOf(acc) |-> CountDelta(c)])
               = Cardinality(inrange)
            /\ SetSum(CellsOf(acc), [c \in CellsOf(acc) |-> SumDelta(c)])
               = SetSum(inrange, PointEpes)

\* A returned update of two points, one below the first speed boundary and
\* one whose error is at the last error boundary, changed nothing.
C8_Witness ==
    /\ LastUpdateReturned
    /\ Len(last.pc) = 2
    /\ PointSpeed(1) < SpeedSplits[1]
    /\ PointEpe(2) >= EpeSplits[Len(EpeSplits)]
    /\ \E c \in CellsOf(acc) : last.pre.per_class_bucketed_error_count[c] > 0
    /\ TensorsUnchanged


ConfiguredIds == {CategoryIds[k] : k \in 1..Len(CategoryIds)}

\* Sample i of the last validation step's batch: the source frame's valid
\* points, their ground-truth flowed points, their category ids and the
\* predicted flow.
StepSamples == Len(last.batch.input.pc_array_stack)

SrcPoints(i) ==
    LET frames == last.batch.input.pc_array_stack[i]
    IN  IndexSelect(frames[Len(frames) - 1], last.batch.output.pc0_valid_point_idxes[i])

SrcFlowed(i) ==
    LET frames == last.batch.input.flowed_pc_array_stack[i]
    IN  IndexSelect(frames[Len(frames) - 1], last.batch.output.pc0_valid_point_idxes[i])

SrcClasses(i) ==
    LET frames == last.batch.input.pc_class_mask_stack[i]
    IN  IndexSelect(frames[Len(frames) - 1], last.batch.output.pc0_valid_point_idxes[i])

\* The three arrays of sample i have the same point count and three
\* coordinates per point.
SampleShapesAgree(i) ==
    /\ Len(SrcPoints(i)) = Len(SrcFlowed(i))
    /\ Len(SrcPoints(i)) = Len(last.batch.output.flow[i])
    /\ \A k \in 1..Len(SrcPoints(i)) : Len(SrcPoints(i)[k]) = 3
    /\ \A k \in 1..Len(SrcFlowed(i)) : Len(SrcFlowed(i)[k]) = 3
    /\ \A k \in 1..Len(last.batch.output.flow[i]) : Len(last.batch.output.flow[i][k]) = 3

SampleIdsConfigured(i) ==
    \A k \in 1..Len(SrcClasses(i)) : SrcClasses(i)[k] \in ConfiguredIds

\* Every index of sample i names a row of the frame it is applied to.
SampleIndexesValid(i) ==
    LET frames == last.batch.input.pc_array_stack[i]
        rows(k) == Len(frames[k])
    IN  /\ \A k \in 1..Len(last.batch.output.pc0_valid_point_idxes[i]) :
            last.batch.output.pc0_valid_point_idxes[i][k] \in 1..rows(Len(frames) - 1)
        /\ \A k \in 1..Len(last.batch.output.pc1_valid_point_idxes[i]) :
            last.batch.output.pc1_valid_point_idxes[i][k] \in 1..rows(Len(frames))

\* Sample i can be read, its arrays agree and its categories are configured.
SampleWellFormed(i) ==
    SampleIndexesValid(i) /\ SampleShapesAgree(i) /\ SampleIdsConfigured(i)

\* Sample i is the first sample of the batch that is not well formed.
FirstBadSample(i) ==
    /\ i \in 1..StepSamples
    /\ ~SampleWellFormed(i)
    /\ \A j \in 1..(i - 1) : SampleWellFormed(j)

\* The batch of the last validation step cut to its first n samples.
BatchPrefix(n) ==
    LET b == last.batch
    IN  [input |-> [pc_array_stack |-> SubSeq(b.input.pc_array_stack, 1, n),
                    flowed_pc_array_stack |-> SubSeq(b.input.flowed_pc_array_stack, 1, n),
                    pc_class_mask_stack |-> SubSeq(b.input.pc_class_mask_stack, 1, n)],
         output |-> [batch_delta_time |-> b.output.batch_delta_time,
                     flow |-> SubSeq(b.output.flow, 1, n),
                     pc0_valid_point_idxes |-> SubSeq(b.output.pc0_valid_point_idxes, 1, n),
                     pc1_valid_point_idxes |-> SubSeq(b.output.pc1_valid_point_idxes, 1, n)]]

\* C9: an update_class_error call whose category id is absent from the
\* table fails with UnknownCategory and leaves the accumulator as it was;
\* a validation step whose first ill-formed sample carries an absent id
\* fails with UnknownCategory.
C9_UnknownCategory ==
    /\ (last.op = "update_class_error" /\ LastShapesAgree
        /\ last.class_id \notin ConfiguredIds) =>
            last.err = "UnknownCategory" /\ acc = last.pre
    /\ (last.op = "validation_step" /\ has_labels) =>
        \A i \in 1..StepSamples :
            (FirstBadSample(i) /\ SampleIndexesValid(i) /\ SampleShapesAgree(i)) =>
                last.err = "UnknownCategory"

\* A call with the absent id 9 was made on an accumulator holding counts.
C9_Witness ==
    /\ last.op = "update_class_error"
    /\ LastShapesAgree
    /\ last.class_id = 9
    /\ \E c \in CellsOf(acc) : last.pre.per_class_bucketed_error_count[c] > 0
    /\ last.err = "UnknownCategory"

\* C10: an update_class_error call whose arrays disagree in point count, or
\* whose points do not have 3 coordinates, fails with ShapeMismatch and
\* changes no cell; a validation step fails with ShapeMismatch at its first
\* sample whose arrays disagree, and error_sum and error_count are then
\* what the samples before it alone produce.
C10_ShapeMismatch ==
    /\ (last.op = "update_class_error" /\ ~LastShapesAgree) =>
            last.err = "ShapeMismatch" /\ TensorsUnchanged
    /\ (last.op = "validation_step" /\ has_labels) =>
        \A i \in 1..StepSamples :
            (FirstBadSample(i) /\ SampleIndexesValid(i) /\ ~SampleShapesAgree(i)) =>
                LET before == validation_step([has_labels |-> TRUE, metric |-> last.pre],
                                              BatchPrefix(i - 1).input,
                                              BatchPrefix(i - 1).output).metric
                IN  /\ last.err = "ShapeMismatch"
                    /\ acc.per_class_bucketed_error_sum
                       = before.per_class_bucketed_error_sum
                    /\ acc.per_class_bucketed_error_count
                       = before.per_class_bucketed_error_count

\* A validation step failed with ShapeMismatch at its second sample, whose
\* points have two coordinates, after its first sample had been counted.
C10_Witness ==
    /\ last.op = "validation_step"
    /\ StepSamples = 2
    /\ FirstBadSample(2)
    /\ Len(SrcPoints(2)) = Len(last.batch.output.flow[2])
    /\ \E k \in 1..Len(SrcPoints(2)) : Len(SrcPoints(2)[k]) = 2
    /\ last.err = "ShapeMismatch"
    /\ ~TensorsUnchanged


\* ---------------------------------------------- properties: the protocol

\* The four tensors of an accumulator, in the order gather passes them.
FourTensors(m) ==
    <<m.per_class_bucketed_error_sum, m.per_class_bucketed_error_count,
      Scalar(m.total_forward_time), Scalar(m.total_forward_count)>>

\* C1: on every process the reset comes after its gather read, and the
\* gather is a barrier: a process that has reset (or reported) in its e-th
\* epoch end finds that every process has passed all four tensors of that
\* epoch to the gather; what a process passes is what it had accumulated
\* when its epoch end began, and its accumulator still holds that while it
\* is inside the gather.
C1_ResetAfterGather ==
    /\ \A p \in Ranks, q \in Ranks : Len(slots[q]) >= 4 * epoch[p]
    /\ \A k \in 1..Len(report_log), q \in Ranks :
           Len(slots[q]) >= 4 * report_log[k].epoch
    /\ \A p \in Ranks :
           pc[p] = "gather" => metric[p] = snap[p][epoch[p] + 1].metric
    /\ \A p \in Ranks : \A e \in 1..Len(snap[p]), k \in 1..4 :
           4 * (e - 1) + k <= Len(slots[p]) =>
               slots[p][4 * (e - 1) + k] = FourTensors(snap[p][e].metric)[k]

\* One process has reset an accumulator that held samples while another is
\* still inside the gather of the same epoch.
C1_Witness ==
    \E p \in Ranks, q \in Ranks :
        /\ epoch[p] = 1 /\ steps[p] = 0
        /\ snap[p][1].metric.total_forward_count > 0
        /\ metric[p].total_forward_count = 0
        /\ epoch[q] = 0 /\ pc[q] = "gather"
        /\ snap[q][1].metric.total_forward_count > 0

\* The cell-wise sum over the processes of tensor k of their accumulators as
\* they were when epoch end e began.
SumOfLocals(e, k) ==
    [c \in DOMAIN FourTensors(snap[0][e].metric)[k] |->
        SetSum(Ranks, [q \in Ranks |-> FourTensors(snap[q][e].metric)[k][c]])]

\* C2: each of the four sums a process's gather returns equals, cell by
\* cell, the sum of the processes' local values at the gather, and every
\* process obtains the same sums.
C2_GatherIsSumOfLocals ==
    /\ \A p \in Ranks : \A e \in 1..Len(totals[p]) :
        /\ totals[p][e][1] = SumOfLocals(e, 1)
        /\ totals[p][e][2] = SumOfLocals(e, 2)
        /\ totals[p][e][3] = SumOfLocals(e, 3)[<<>>]
        /\ totals[p][e][4] = SumOfLocals(e, 4)[<<>>]
    /\ \A p \in Ranks : \A k \in 1..Len(partial[p]) :
           partial[p][k] = SumOfLocals(epoch[p] + 1, k)
    /\ \A p \in Ranks, q \in Ranks : \A e \in 1..Len(totals[p]) :
           e <= Len(totals[q]) => totals[p][e] = totals[q][e]

\* Every process held a count of 2 at the same cell and a process's gather
\* returned 2 * P there.
C2_Witness ==
    \E p \in Ranks : \E c \in CellsOf(ProtoMetric) :
        /\ Len(totals[p]) >= 1
        /\ \A q \in Ranks : snap[q][1].metric.per_class_bucketed_error_count[c] = 2
        /\ totals[p][1][2][c] = 2 * NumProcs

\* C3: the reports are produced by rank 0 alone, one per epoch end it has
\* completed, and the saved file holds the last of them; an epoch end
\* completed by another rank produces and saves nothing.
C3_OnlyRankZeroReports ==
    /\ Len(report_log) = epoch[0]
    /\ \A k \in 1..Len(report_log) :
           report_log[k].rank = 0 /\ report_log[k].epoch = k
    /\ saved_file.exists <=> epoch[0] >= 1
    /\ saved_file.exists => saved_file.content = report_log[Len(report_log)].report

\* Every process has completed its first epoch end and one report exists.
C3_Witness ==
    /\ \A p \in Ranks : epoch[p] = 1
    /\ Len(report_log) = 1
    /\ saved_file.exists

\* C4: a report is never produced from a gathered forward count of 0: the
\* report generation fails instead of computing the average forward time
\* and saving.
C4_NoSamplesProcessed ==
    /\ \A k \in 1..Len(report_log) : report_log[k].total_forward_count # 0
    /\ saved_file.exists => saved_file.content.average_forward_time.kind = "finite"

\* C5: a report made from a forward count of 0 (the NoSamplesProcessed
\* case) touches that epoch's report only: right after any report, made
\* from a zero count or not, rank 0's accumulator is the all-zero
\* accumulator, and the report of the epoch after a zero-count report is
\* made from exactly the forward time and sample count the validation
\* steps of that epoch fed in.
C5_ZeroCountReportLeavesStateClean ==
    /\ (pc[0] = "validate" /\ steps[0] = 0) => metric[0] = ProtoMetric
    /\ \A k \in 1..Len(report_log) :
        (report_log[k].total_forward_count = 0 /\ k + 1 <= Len(report_log)) =>
            /\ report_log[k + 1].total_forward_time
               = SetSum(Ranks, [q \in Ranks |-> snap[q][k + 1].fed.time])
            /\ report_log[k + 1].total_forward_count
               = SetSum(Ranks, [q \in Ranks |-> snap[q][k + 1].fed.count])
            /\ report_log[k + 1].report.average_forward_time
               = TrueDivide(report_log[k + 1].total_forward_time,
                            report_log[k + 1].total_forward_count)

\* A report made from a zero count though forward time had accumulated was
\* followed by a report of an epoch that processed samples.
C5_Witness ==
    /\ Len(report_log) >= 2
    /\ report_log[1].total_forward_count = 0
    /\ report_log[1].total_forward_time > 0
    /\ report_log[2].total_forward_count > 0
    /\ report_log[2].report.average_forward_time.kind = "finite"
    /\ pc[0] = "validate" /\ steps[0] = 0 /\ metric[0] = ProtoMetric

\* ----------------------------------------- properties: the evaluated pair

\* The batch with every sample's sequence cut to its last two frames.
LastTwoFrames(batch) ==
    LET cut(stack) == [i \in 1..Len(stack) |->
                          SubSeq(stack[i], Len(stack[i]) - 1, Len(stack[i]))]
    IN  [batch EXCEPT !.input.pc_array_stack = cut(@),
                      !.input.flowed_pc_array_stack = cut(@),
                      !.input.pc_class_mask_stack = cut(@)]

\* C17: a validation step leaves the accumulator, and raises, what it would
\* for the same batch with every frame before the last two removed.
C17_OnlyLastTwoFrames ==
    last.op = "validation_step" =>
        LET cut == LastTwoFrames(last.batch)
            r == validation_step([has_labels |-> has_labels, metric |-> last.pre],
                                 cut.input, cut.output)
        IN  r.metric = acc /\ r.err = last.err

\* A step on a sample of three frames whose first frame differs from the
\* source frame in points, flowed points and labels; the step has counted
\* the source frame's points.
C17_Witness ==
    /\ last.op = "validation_step" /\ last.err = "none"
    /\ Len(last.batch.input.pc_array_stack) = 1
    /\ Len(last.batch.input.pc_array_stack[1]) = 3
    /\ last.batch.input.pc_array_stack[1][1] # last.batch.input.pc_array_stack[1][2]
    /\ last.batch.input.flowed_pc_array_stack[1][1] # last.batch.input.flowed_pc_array_stack[1][2]
    /\ last.batch.input.pc_class_mask_stack[1][1] # last.batch.input.pc_class_mask_stack[1][2]
    /\ \E c \in CellsOf(acc) :
           acc.per_class_bucketed_error_count[c] > last.pre.per_class_bucketed_error_count[c]

\* -------------------------------- properties: reads, resets and run time

\* What a read of the accumulator returns: its four tensors.
ReadOf(self) ==
    <<self.per_class_bucketed_error_sum, self.per_class_bucketed_error_count,
      Scalar(self.total_forward_time), Scalar(self.total_forward_count)>>

\* The all-zero read of the accumulator's shape.
ZeroRead ==
    <<Zeros(CellsOf(acc)), Zeros(CellsOf(acc)), Scalar(0), Scalar(0)>>

\* C12: a gather leaves the accumulator as it found it and returns its four
\* tensors; a gather that directly follows a gather returns what that one
\* returned.
C12_ReadDoesNotAlter ==
    last.op = "gather" =>
        /\ acc = last.pre
        /\ last.ret = ReadOf(last.pre)
        /\ last.prev_op = "gather" => last.ret = last.prev_ret

\* Two gathers in a row on an accumulator that holds counts and run time.
C12_Witness ==
    /\ last.op = "gather" /\ last.prev_op = "gather"
    /\ \E c \in CellsOf(acc) : acc.per_class_bucketed_error_count[c] > 0
    /\ acc.total_forward_count > 0
    /\ last.ret = last.prev_ret

\* C13: after reset all four tensors are zero, whatever the accumulator held
\* before, and a second reset changes nothing.
C13_ResetZeroesIdempotent ==
    last.op = "reset" =>
        /\ ReadOf(acc) = ZeroRead
        /\ reset(acc) = acc
        /\ reset(reset(last.pre)) = reset(last.pre)

\* A reset of an accumulator none of whose four tensors was zero.
C13_Witness ==
    /\ last.op = "reset"
    /\ \E c \in CellsOf(acc) : last.pre.per_class_bucketed_error_sum[c] > 0
    /\ \E c \in CellsOf(acc) : last.pre.per_class_bucketed_error_count[c] > 0
    /\ last.pre.total_forward_time > 0
    /\ last.pre.total_forward_count > 0

\* C14: a gather with only gathers between it and the last reset returns
\* all-zero tensors, and the accumulator is all-zero then.
C14_ZeroUntilNextUpdate ==
    (last.op = "gather" /\ last.since_reset) =>
        last.ret = ZeroRead /\ ReadOf(acc) = ZeroRead

\* The second gather after a reset of an accumulator that held counts and
\* run time.
C14_Witness ==
    /\ last.op = "gather" /\ last.since_reset /\ last.prev_op = "gather"
    /\ \E c \in CellsOf(acc) : last.reset_pre.per_class_bucketed_error_count[c] > 0
    /\ last.reset_pre.total_forward_count > 0

\* C16: a call other than reset leaves total_forward_time and
\* total_forward_count at least what they were.
C16_RuntimeMonotoneBetweenResets ==
    last.op \in {"update_class_error", "update_runtime", "validation_step", "gather"} =>
        /\ acc.total_forward_time >= last.pre.total_forward_time
        /\ acc.total_forward_count >= last.pre.total_forward_count

\* A validation step has raised both totals above values that were already
\* positive.
C16_Witness ==
    /\ last.op = "validation_step"
    /\ last.pre.total_forward_time > 0 /\ last.pre.total_forward_count > 0
    /\ acc.total_forward_time > last.pre.total_forward_time
    /\ acc.total_forward_count > last.pre.total_forward_count

\* ------------------------------------------------ properties: additivity

\* The accumulator after one update_class_error call per index of `order`,
\* each with that one point of the last call, made from `self` on.
RECURSIVE UpdateEach(_, _)
UpdateEach(self, order) ==
    IF order = <<>> THEN self
    ELSE LET i == Head(order)
         IN  UpdateEach(update_class_error(self, <<last.pc[i]>>, last.class_id,
                                           <<last.regressed_flow[i]>>,
                                           <<last.gt_flow[i]>>).metric,
                        Tail(order))

\* The orders in which the points of the last call can be taken.
PointOrders ==
    LET n == Len(last.pc)
    IN  {o \in [1..n -> 1..n] : \A i \in 1..n, j \in 1..n : o[i] = o[j] => i = j}

\* The accumulator after two calls that split the points of the last call
\* into the first k and the rest.
UpdateInTwo(k) ==
    LET n == Len(last.pc)
        first == update_class_error(last.pre, SubSeq(last.pc, 1, k), last.class_id,
                                    SubSeq(last.regressed_flow, 1, k),
                                    SubSeq(last.gt_flow, 1, k)).metric
    IN  update_class_error(first, SubSeq(last.pc, k + 1, n), last.class_id,
                           SubSeq(last.regressed_flow, k + 1, n),
                           SubSeq(last.gt_flow, k + 1, n)).metric

\* The accumulators the last call's points give when they are passed point
\* by point in some order, or in two calls.
SplitUpdates ==
    {UpdateEach(last.pre, o) : o \in PointOrders}
    \cup {UpdateInTwo(k) : k \in 0..Len(last.pc)}

\* No addition of the last call's errors into a cell rounds: the whole-number
\* total of every cell stays at most 2^24.
LastUpdateExact ==
    \A c \in CellsOf(acc) :
        last.pre.per_class_bucketed_error_sum[c]
        + SetSum(PointsOfCell(c), PointEpes) <= Float32ExactLimit

CellEpeBounds(c) == epe_bucket_bounds(acc)[c[4] + 1]

\* Count and sum of every cell are at least 0, and a cell without points has
\* the sum 0.
CellsWellFormed ==
    \A c \in CellsOf(acc) :
        /\ acc.per_class_bucketed_error_count[c] >= 0
        /\ acc.per_class_bucketed_error_sum[c] >= 0
        /\ acc.per_class_bucketed_error_count[c] = 0 =>
               acc.per_class_bucketed_error_sum[c] = 0

\* The mean error_sum / error_count of cell c lies in the cell's error
\* bucket [lower, upper).
MeanInBucket(c) ==
    /\ CellEpeBounds(c)[1] * acc.per_class_bucketed_error_count[c]
       <= acc.per_class_bucketed_error_sum[c]
    /\ acc.per_class_bucketed_error_sum[c]
       < CellEpeBounds(c)[2] * acc.per_class_bucketed_error_count[c]

\* C20 as stated: in every accumulator state every cell is well formed and
\* the mean of a cell with points lies in the cell's error bucket.
C20_CellMeanInBucket ==
    /\ CellsWellFormed
    /\ \A c \in CellsOf(acc) :
           acc.per_class_bucketed_error_count[c] > 0 => MeanInBucket(c)

\* ------------------------------------------------ properties: merge level

\* The four tensors of an accumulator.
Tensors(self) ==
    <<self.per_class_bucketed_error_sum, self.per_class_bucketed_error_count,
      self.total_forward_time, self.total_forward_count>>

\* No float32 addition over the three operands rounds: the whole-number
\* total of every error-sum cell and of the forward time is at most 2^24,
\* so every partial sum is a float32.
OperandSumsExact ==
    /\ \A c \in CellsOf(MergeMetric) :
           operands[1].per_class_bucketed_error_sum[c]
           + operands[2].per_class_bucketed_error_sum[c]
           + operands[3].per_class_bucketed_error_sum[c] <= Float32ExactLimit
    /\ operands[1].total_forward_time + operands[2].total_forward_time
       + operands[3].total_forward_time <= Float32ExactLimit

\* C11 as stated: merge is commutative and associative element-wise on all
\* four tensors, and the sums a gather returns are the same for every order
\* of the stack.
C11_MergeCommutativeAssociative ==
    /\ merged.pairs # <<>> =>
        /\ merged.pairs.ab = merged.pairs.ba
        /\ merged.pairs.ab_c = merged.pairs.a_bc
    /\ merged.stacks # <<>> =>
        \A o1 \in StackOrders, o2 \in StackOrders :
            merged.stacks[o1] = merged.stacks[o2]

\* C11 (amended): merge is commutative on all four tensors; on the integer
\* tensors (error count, forward count) it is associative and a gather's
\* sums do not depend on the order of the stack; on the float32 tensors
\* (error sum, forward time) that holds whenever no addition rounds.
C11_MergeAssociativeWhereExact ==
    /\ merged.pairs # <<>> =>
        /\ merged.pairs.ab = merged.pairs.ba
        /\ Tensors(merged.pairs.ab_c)[2] = Tensors(merged.pairs.a_bc)[2]
        /\ Tensors(merged.pairs.ab_c)[4] = Tensors(merged.pairs.a_bc)[4]
        /\ OperandSumsExact => merged.pairs.ab_c = merged.pairs.a_bc
    /\ merged.stacks # <<>> =>
        \A o1 \in StackOrders, o2 \in StackOrders :
            /\ merged.stacks[o1][2] = merged.stacks[o2][2]
            /\ merged.stacks[o1][4] = merged.stacks[o2][4]
            /\ OperandSumsExact => merged.stacks[o1] = merged.stacks[o2]

\* Three different non-zero accumulators whose sums are exact have been
\* merged and gathered, and the merge holds the sum of the three.
C11_Witness ==
    /\ merged.pairs # <<>> /\ merged.stacks # <<>>
    /\ OperandSumsExact
    /\ operands[1] # operands[2] /\ operands[2] # operands[3] /\ operands[1] # operands[3]
    /\ \A i \in 1..3 : operands[i].per_class_bucketed_error_sum[<<0, 1, 0, 0>>] > 0
    /\ merged.pairs.ab_c.per_class_bucketed_error_sum[<<0, 1, 0, 0>>]
       = operands[1].per_class_bucketed_error_sum[<<0, 1, 0, 0>>]
         + operands[2].per_class_bucketed_error_sum[<<0, 1, 0, 0>>]
         + operands[3].per_class_bucketed_error_sum[<<0, 1, 0, 0>>]

\* ------------------------------------------------- properties: proximity

\* What the last call added to the counts of proximity slice s, all cells
\* of the slice together.
SliceCountDelta(s) ==
    SetSum({c \in CellsOf(acc) : c[1] = s}, [c \in CellsOf(acc) |-> CountDelta(c)])

\* The in-range points of the last call with max(|x|, |y|) at most the
\* threshold, and those beyond it.
ClosePoints ==
    {i \in 1..Len(last.pc) : PointInRange(i) /\ PointProximity(i) = 0}

FarPoints ==
    {i \in 1..Len(last.pc) : PointInRange(i) /\ PointProximity(i) = 1}

\* C21: a returned update counts under the close slice (index 0) exactly
\* the in-range points whose max(|x|, |y|) is at most the close-object
\* threshold and under the far slice (index 1) exactly the others, so the
\* two slices together grow by the number of in-range points: no point is
\* counted twice or dropped on account of its proximity.
C21_OneProximityClass ==
    LastUpdateReturned =>
        /\ {c[1] : c \in CellsOf(acc)} = {0, 1}
        /\ SliceCountDelta(0) = Cardinality(ClosePoints)
        /\ SliceCountDelta(1) = Cardinality(FarPoints)
        /\ SliceCountDelta(0) + SliceCountDelta(1)
           = Cardinality({i \in 1..Len(last.pc) : PointInRange(i)})

\* A returned update of two in-range points, one exactly on the threshold
\* (one coordinate negative) and one beyond it: each slice grew by one.
C21_Witness ==
    /\ LastUpdateReturned
    /\ Len(last.pc) = 2
    /\ \E i \in ClosePoints :
        /\ Abs(last.pc[i][2]) = close_object_threshold_meters
        /\ last.pc[i][2] < 0
    /\ FarPoints # {}
    /\ SliceCountDelta(0) = 1
    /\ SliceCountDelta(1) = 1

\* ------------------------------------------------ properties: unlabelled

\* Every cell of a tensor is 0.
AllZero(tensor) == \A c \in DOMAIN tensor : tensor[c] = 0

\* C22: in a wrapper whose has_labels is false, whatever validation steps
\* have run, every process's accumulator is as constructed (all four
\* tensors zero), every tensor a process has handed to the epoch-end gather
\* is all zeros, and so is every gathered total.
C22_UnlabelledLeavesAccumulator ==
    (has_labels = HasLabels(PseudolabelCfg)) =>
        \A p \in Ranks :
            /\ metric[p] = ProtoMetric
            /\ \A n \in 1..Len(slots[p]) : AllZero(slots[p][n])
            /\ \A e \in 1..Len(totals[p]) :
                /\ AllZero(totals[p][e][1]) /\ AllZero(totals[p][e][2])
                /\ totals[p][e][3] = 0 /\ totals[p][e][4] = 0

\* With has_labels false every process has run validation steps and
\* finished an epoch end, and one of them has stepped again since.
C22_Witness ==
    /\ ~has_labels
    /\ \A p \in Ranks : Len(totals[p]) >= 1 /\ Len(slots[p]) >= 4
    /\ \E p \in Ranks : epoch[p] = 1 /\ steps[p] >= 1

\* --------------------------------------------- properties: forward count

\* C23: with has_labels true, the total_forward_count of every process is
\* the number of samples in the batches of the validation steps it has run
\* since its last reset (since construction before the first), each batch
\* counted once; a step that raised in its sample loop has counted its
\* batch all the same, the count being added before the loop.
C23_ForwardCountIsSampleCount ==
    has_labels =>
        \A p \in Ranks : metric[p].total_forward_count = fed[p].count

\* In its second epoch a process has completed two steps of two samples
\* each, and another process has raised in a step whose batch was counted.
C23_Witness ==
    /\ has_labels
    /\ \E p \in Ranks :
        /\ pc[p] = "validate" /\ epoch[p] = 1 /\ steps[p] = 2
        /\ metric[p].total_forward_count = 4
    /\ \E q \in Ranks :
        /\ pc[q] = "failed"
        /\ metric[q].total_forward_count >= 1

\* ------------------------------------------- properties: epoch by epoch

\* The cell-wise sum over the processes of tensor k of what the validation
\* steps of epoch e alone put into a fresh accumulator.
SumOfEpochUpdates(e, k) ==
    [c \in DOMAIN FourTensors(snap[0][e].fed.acc)[k] |->
        SetSum(Ranks, [q \in Ranks |-> FourTensors(snap[q][e].fed.acc)[k][c]])]

\* C19: the four totals a process's gather returns at the end of epoch e are
\* the sums of what the steps of epoch e alone accumulated on the
\* processes; a process begins every epoch with the all-zero accumulator,
\* and while it is inside its epoch end its accumulator is what it was when
\* the epoch end began.
C19_EpochTotalsAreEpochUpdates ==
    /\ \A p \in Ranks : \A e \in 1..Len(totals[p]) :
        /\ totals[p][e][1] = SumOfEpochUpdates(e, 1)
        /\ totals[p][e][2] = SumOfEpochUpdates(e, 2)
        /\ totals[p][e][3] = SumOfEpochUpdates(e, 3)[<<>>]
        /\ totals[p][e][4] = SumOfEpochUpdates(e, 4)[<<>>]
    /\ \A p \in Ranks :
        /\ (pc[p] = "validate" /\ steps[p] = 0) => metric[p] = ProtoMetric
        /\ pc[p] = "gather" =>
            /\ metric[p] = snap[p][epoch[p] + 1].metric
            /\ metric[p] = snap[p][epoch[p] + 1].fed.acc

\* A process has the totals of two epochs, both with points counted, and
\* the second epoch's totals differ from the first's.
C19_Witness ==
    \E p \in Ranks : \E c \in CellsOf(ProtoMetric) :
        /\ Len(totals[p]) = 2
        /\ totals[p][1][2][c] > 0
        /\ totals[p][2][2][c] > 0
        /\ totals[p][2][2][c] < totals[p][1][2][c]
        /\ totals[p][2][1] # totals[p][1][1]

\* -------------------------------------------------- properties: the report

MetricNames == {"full_nonmover_epe", "full_mover_epe", "close_nonmover_epe", "close_mover_epe"}

\* The cells report k aggregates for the metric of a name.
AggregateCells(k, name) ==
    {c \in DOMAIN report_log[k].report.per_class_bucketed_error_count :
        /\ (name \in {"close_nonmover_epe", "close_mover_epe"} => c[1] = 0)
        /\ (name \in {"full_mover_epe", "close_mover_epe"} <=> c[2] # 0)}

AggregateCount(k, name) ==
    SetSum(AggregateCells(k, name), report_log[k].report.per_class_bucketed_error_count)

AggregateSum(k, name) ==
    SetSum(AggregateCells(k, name), report_log[k].report.per_class_bucketed_error_sum)

\* C15: every mean a report logs is a finite number; the mean of an
\* aggregate without points is exactly 0 and any other mean m = num/den
\* satisfies m * count = sum, so that cells without points add nothing.
C15_EmptyAggregateMeanIsZero ==
    \A k \in 1..Len(report_log) : \A name \in MetricNames :
        LET m == report_log[k].logged[name]
        IN  /\ m.kind = "finite"
            /\ AggregateCount(k, name) = 0 => (m.num = 0 /\ m.den = 1)
            /\ AggregateCount(k, name) > 0 =>
                   m.num * AggregateCount(k, name) = m.den * AggregateSum(k, name)

\* A report with an aggregate without points (close non-movers) next to
\* aggregates with points and a positive mean.
C15_Witness ==
    \E k \in 1..Len(report_log) :
        /\ AggregateCount(k, "close_nonmover_epe") = 0
        /\ AggregateCount(k, "full_nonmover_epe") > 0
        /\ report_log[k].logged["full_nonmover_epe"].num > 0
        /\ AggregateCount(k, "close_mover_epe") > 0

====
